---- MODULE Spec2Model ----
\* Model of src/app.py: the search handlers of the Flask application, the
\* fan-out of UltimateAustralianDataAggregator.search_ultimate_comprehensive,
\* the provider adapter enhanced_morningstar_multiple_strategies, the
\* normalizer format_morningstar_data and deduplicate_and_enhance.
EXTENDS Integers, Sequences, FiniteSets, TLC

\* ------------------------------------------------------------------------
\* Python values.  Text is a TLA+ string; numbers that the program only
\* copies (returns, cost ratios) are kept as opaque strings; None is a value
\* distinct from every text the model uses.
\* ------------------------------------------------------------------------
None == "<None>"

\* Python truthiness of a text-or-None value: None and '' are falsy.
Truthy(v) == v # None /\ v # ""

\* dict.get(key, default)
Get(item, key, default) == IF key \in DOMAIN item THEN item[key] ELSE default

\* a or b
Or(a, b) == IF Truthy(a) THEN a ELSE b

LowerMap ==
    [A |-> "a", B |-> "b", C |-> "c", D |-> "d", E |-> "e", F |-> "f", G |-> "g",
     H |-> "h", I |-> "i", J |-> "j", K |-> "k", L |-> "l", M |-> "m", N |-> "n",
     O |-> "o", P |-> "p", Q |-> "q", R |-> "r", S |-> "s", T |-> "t", U |-> "u",
     V |-> "v", W |-> "w", X |-> "x", Y |-> "y", Z |-> "z"]

UpperMap ==
    [a |-> "A", b |-> "B", c |-> "C", d |-> "D", e |-> "E", f |-> "F", g |-> "G",
     h |-> "H", i |-> "I", j |-> "J", k |-> "K", l |-> "L", m |-> "M", n |-> "N",
     o |-> "O", p |-> "P", q |-> "Q", r |-> "R", s |-> "S", t |-> "T", u |-> "U",
     v |-> "V", w |-> "W", x |-> "X", y |-> "Y", z |-> "Z"]

CharAt(s, i) == SubSeq(s, i, i)

RECURSIVE MapChars(_, _, _)
MapChars(s, map, i) ==
    IF i > Len(s) THEN ""
    ELSE LET c == CharAt(s, i)
         IN (IF c \in DOMAIN map THEN map[c] ELSE c) \o MapChars(s, map, i + 1)

\* str.lower()
Lower(s) == MapChars(s, LowerMap, 1)

\* str.upper()
Upper(s) == MapChars(s, UpperMap, 1)

RECURSIVE LStrip(_)
LStrip(s) == IF Len(s) > 0 /\ CharAt(s, 1) = " " THEN LStrip(SubSeq(s, 2, Len(s))) ELSE s

RECURSIVE RStrip(_)
RStrip(s) ==
    IF Len(s) > 0 /\ CharAt(s, Len(s)) = " " THEN RStrip(SubSeq(s, 1, Len(s) - 1)) ELSE s

\* str.strip()
Strip(s) == RStrip(LStrip(s))

\* needle in hay
Contains(hay, needle) ==
    \E i \in 1..(Len(hay) - Len(needle) + 1) : SubSeq(hay, i, i + Len(needle) - 1) = needle

PySliceInclusive(list, n) == SubSeq(list, 1, IF n + 1 < Len(list) THEN n + 1 ELSE Len(list))

\* list[:n], Python slice semantics (a negative n counts from the end)
PySlice(list, n) ==
    IF n >= 0
    THEN SubSeq(list, 1, IF n < Len(list) THEN n ELSE Len(list))
    ELSE SubSeq(list, 1, IF Len(list) + n > 0 THEN Len(list) + n ELSE 0)

\* ------------------------------------------------------------------------
\* format_morningstar_data
\* ------------------------------------------------------------------------
IdentifierFirstPresent(item) ==
    Get(item, "fundShareClassId",
        Get(item, "SecId", Get(item, "Ticker", Get(item, "TenforeId", Get(item, "ISIN", "")))))

\* item.get(k1, '') or item.get(k2, '') or ... or item.get(k5, '')
Identifier(item) ==
    Or(Get(item, "fundShareClassId", ""),
       Or(Get(item, "SecId", ""),
          Or(Get(item, "Ticker", ""),
             Or(Get(item, "TenforeId", ""),
                Get(item, "ISIN", "")))))

\* the three-year and five-year keys exchanged, the locale defaults dropped
FormatMisread(item, source) ==
    [apir        |-> Identifier(item),
     name        |-> Get(item, "Name", ""),
     threeMonths |-> Get(item, "GBRReturnM3", None),
     oneYear     |-> Get(item, "GBRReturnM12", None),
     threeYears  |-> Get(item, "GBRReturnM60", None),
     fiveYears   |-> Get(item, "GBRReturnM36", None),
     tenYears    |-> Get(item, "GBRReturnM120", None),
     tcr         |-> Get(item, "ongoingCharge", None),
     assetClass  |-> Get(item, "globalAssetClassId", ""),
     sector      |-> Or(Get(item, "LargestSector", ""), Get(item, "SectorName", "")),
     status      |-> source,
     country     |-> Get(item, "MarketCountryName", ""),
     currency    |-> Get(item, "currency", ""),
     exchange    |-> Get(item, "ExchangeId", ""),
     type        |-> "Fund"]

format_morningstar_data(item, source) ==
    [apir        |-> Identifier(item),
     name        |-> Get(item, "Name", ""),
     threeMonths |-> Get(item, "GBRReturnM3", None),
     oneYear     |-> Get(item, "GBRReturnM12", None),
     threeYears  |-> Get(item, "GBRReturnM36", None),
     fiveYears   |-> Get(item, "GBRReturnM60", None),
     tenYears    |-> Get(item, "GBRReturnM120", None),
     tcr         |-> Get(item, "ongoingCharge", None),
     assetClass  |-> Get(item, "globalAssetClassId", ""),
     sector      |-> Or(Get(item, "LargestSector", ""), Get(item, "SectorName", "")),
     status      |-> source,
     country     |-> Get(item, "MarketCountryName", "Australia"),
     currency    |-> Get(item, "currency", "AUD"),
     exchange    |-> Get(item, "ExchangeId", ""),
     type        |-> "Fund"]

\* ------------------------------------------------------------------------
\* deduplicate_and_enhance
\* ------------------------------------------------------------------------
AdditionalKeys ==
    {"fund_name", "option_name", "risk_level", "suggested_timeframe",
     "ticker", "fund_manager", "abn"}

\* if not item.get('name') or not item.get('apir'): continue
Skipped(item) == ~Truthy(Get(item, "name", None)) \/ ~Truthy(Get(item, "apir", None))

NameKey(item) == Strip(Lower(item.name))
ApirKey(item) == Strip(Upper(Get(item, "apir", "")))

ComboKeyRaw(item) == item.name \o "_" \o Get(item, "apir", "")

\* combo_key = f"{name_key}_{apir_key}"
ComboKey(item) == NameKey(item) \o "_" \o ApirKey(item)

EnhanceSwapped(item) ==
    [k \in AdditionalKeys \cap DOMAIN item |-> item[k]] @@
    [apir        |-> Get(item, "apir", ""),
     name        |-> Get(item, "name", ""),
     threeMonths |-> Get(item, "threeMonths", None),
     oneYear     |-> Get(item, "oneYear", None),
     threeYears  |-> Get(item, "threeYears", None),
     fiveYears   |-> Get(item, "fiveYears", None),
     tenYears    |-> Get(item, "tenYears", None),
     tcr         |-> Get(item, "tcr", None),
     assetClass  |-> Get(item, "assetClass", "Unknown"),
     sector      |-> Get(item, "sector", ""),
     status      |-> Get(item, "source", "Multiple Sources"),
     country     |-> Get(item, "country", "Australia"),
     currency    |-> Get(item, "currency", "AUD"),
     exchange    |-> Get(item, "exchange", ""),
     type        |-> Get(item, "type", "Fund"),
     source      |-> Get(item, "status", "Ultimate Aggregator")]

\* enhanced_item: the sixteen fixed fields with their defaults, then the
\* additional fields the item has
Enhance(item) ==
    [k \in AdditionalKeys \cap DOMAIN item |-> item[k]] @@
    [apir        |-> Get(item, "apir", ""),
     name        |-> Get(item, "name", ""),
     threeMonths |-> Get(item, "threeMonths", None),
     oneYear     |-> Get(item, "oneYear", None),
     threeYears  |-> Get(item, "threeYears", None),
     fiveYears   |-> Get(item, "fiveYears", None),
     tenYears    |-> Get(item, "tenYears", None),
     tcr         |-> Get(item, "tcr", None),
     assetClass  |-> Get(item, "assetClass", "Unknown"),
     sector      |-> Get(item, "sector", ""),
     status      |-> Get(item, "status", "Multiple Sources"),
     country     |-> Get(item, "country", "Australia"),
     currency    |-> Get(item, "currency", "AUD"),
     exchange    |-> Get(item, "exchange", ""),
     type        |-> Get(item, "type", "Fund"),
     source      |-> Get(item, "source", "Ultimate Aggregator")]

AppendFront(final_results, enhanced_item) == <<enhanced_item>> \o final_results

\* final_results.append(enhanced_item)
AppendResult(final_results, enhanced_item) == Append(final_results, enhanced_item)

\* A deduplication that fills the fields the kept record lacks from a later
\* duplicate (what the program does not do).
MergeInto(kept, item) ==
    [k \in DOMAIN kept |->
        IF k \in DOMAIN item /\ kept[k] \in {None, "", "Unknown"} THEN item[k] ELSE kept[k]]

RECURSIVE DedupLoopMerge(_, _, _, _)
DedupLoopMerge(all_results, i, seen_combinations, final_results) ==
    IF i > Len(all_results) THEN final_results
    ELSE LET item == all_results[i] IN
         IF Skipped(item)
         THEN DedupLoopMerge(all_results, i + 1, seen_combinations, final_results)
         ELSE IF ComboKey(item) \notin seen_combinations
              THEN DedupLoopMerge(all_results, i + 1,
                                  seen_combinations \cup {ComboKey(item)},
                                  AppendResult(final_results, Enhance(item)))
              ELSE DedupLoopMerge(all_results, i + 1, seen_combinations,
                                  [j \in 1..Len(final_results) |->
                                      IF ComboKey(final_results[j]) = ComboKey(item)
                                      THEN MergeInto(final_results[j], Enhance(item))
                                      ELSE final_results[j]])

\* A deduplication that remembers only the key of the record it kept last.
RECURSIVE DedupLoopLastSeen(_, _, _, _)
DedupLoopLastSeen(all_results, i, seen_combinations, final_results) ==
    IF i > Len(all_results) THEN final_results
    ELSE LET item == all_results[i] IN
         IF Skipped(item)
         THEN DedupLoopLastSeen(all_results, i + 1, seen_combinations, final_results)
         ELSE IF ComboKey(item) \notin seen_combinations
              THEN DedupLoopLastSeen(all_results, i + 1, {ComboKey(item)},
                                     AppendResult(final_results, Enhance(item)))
              ELSE DedupLoopLastSeen(all_results, i + 1, seen_combinations, final_results)

\* the for loop of deduplicate_and_enhance, from the i-th item on
RECURSIVE DedupLoop(_, _, _, _)
DedupLoop(all_results, i, seen_combinations, final_results) ==
    IF i > Len(all_results) THEN final_results
    ELSE LET item == all_results[i] IN
         IF Skipped(item)
         THEN DedupLoop(all_results, i + 1, seen_combinations, final_results)
         ELSE IF ComboKey(item) \notin seen_combinations
              THEN DedupLoop(all_results, i + 1,
                             seen_combinations \cup {ComboKey(item)},
                             AppendResult(final_results, Enhance(item)))
              ELSE DedupLoop(all_results, i + 1, seen_combinations, final_results)

deduplicate_and_enhance(all_results) == DedupLoop(all_results, 1, {}, <<>>)

\* ------------------------------------------------------------------------
\* Static catalogs
\* ------------------------------------------------------------------------
\* super_fund_options, in dictionary order
super_fund_options ==
    << [key |-> "AustralianSuper Balanced", apir |-> "ASU0001AU",
        fund_name |-> "AustralianSuper", option_name |-> "Balanced",
        description |-> "Diversified balanced option with focus on growth assets",
        risk_level |-> "Medium to High", suggested_timeframe |-> "10+ years",
        oneYear |-> "5.71", threeYears |-> "7.2", fiveYears |-> "8.1"],
       [key |-> "AustralianSuper Conservative Balanced", apir |-> "ASU0002AU",
        fund_name |-> "AustralianSuper", option_name |-> "Conservative Balanced",
        description |-> "Conservative diversified option",
        risk_level |-> "Medium", suggested_timeframe |-> "7+ years",
        oneYear |-> "4.53", threeYears |-> "5.8", fiveYears |-> "6.2"],
       [key |-> "AustralianSuper High Growth", apir |-> "ASU0003AU",
        fund_name |-> "AustralianSuper", option_name |-> "High Growth",
        description |-> "High growth option with focus on shares",
        risk_level |-> "High", suggested_timeframe |-> "10+ years",
        oneYear |-> "6.8", threeYears |-> "8.5", fiveYears |-> "9.2"],
       [key |-> "AustralianSuper Australian Shares", apir |-> "ASU0004AU",
        fund_name |-> "AustralianSuper", option_name |-> "Australian Shares",
        description |-> "Focused on Australian share market",
        risk_level |-> "High", suggested_timeframe |-> "7+ years",
        oneYear |-> "8.32", threeYears |-> "9.1", fiveYears |-> "10.5"],
       [key |-> "HESTA Balanced Growth", apir |-> "HES0001AU",
        fund_name |-> "HESTA", option_name |-> "Balanced Growth",
        description |-> "MySuper balanced growth option",
        risk_level |-> "Medium to High", suggested_timeframe |-> "10+ years",
        oneYear |-> "6.2", fiveYears |-> "8.7"],
       [key |-> "Hostplus Balanced", apir |-> "HOS0001AU",
        fund_name |-> "Hostplus", option_name |-> "Balanced",
        description |-> "MySuper balanced investment option",
        risk_level |-> "Medium to High", suggested_timeframe |-> "10+ years",
        oneYear |-> "7.1", fiveYears |-> "9.3"],
       [key |-> "REST Balanced", apir |-> "RES0001AU",
        fund_name |-> "REST Industry Super", option_name |-> "Balanced",
        description |-> "Default MySuper balanced option",
        risk_level |-> "Medium to High", suggested_timeframe |-> "10+ years",
        oneYear |-> "6.8", fiveYears |-> "8.9"],
       [key |-> "UniSuper Balanced", apir |-> "UNI0001AU",
        fund_name |-> "UniSuper", option_name |-> "Balanced",
        description |-> "Default balanced investment option",
        risk_level |-> "Medium to High", suggested_timeframe |-> "10+ years",
        oneYear |-> "6.5", fiveYears |-> "8.8"],
       [key |-> "Cbus Growth", apir |-> "CBU0001AU",
        fund_name |-> "Cbus", option_name |-> "Growth (MySuper)",
        description |-> "Default MySuper growth option",
        risk_level |-> "Medium to High", suggested_timeframe |-> "10+ years",
        oneYear |-> "7.3", fiveYears |-> "9.1"] >>

SuperFundMatchesExactCase(search_term, option_data) ==
    \/ Contains(option_data.key, search_term)
    \/ Contains(option_data.fund_name, search_term)

SuperFundMatches(search_term, option_data) ==
    \/ Contains(Lower(option_data.key), Lower(search_term))
    \/ Contains(Lower(option_data.fund_name), Lower(search_term))

SuperFundResult(option_data) ==
    [apir        |-> option_data.apir,
     name        |-> option_data.key,
     threeMonths |-> Get(option_data, "threeMonths", None),
     oneYear     |-> Get(option_data, "oneYear", None),
     threeYears  |-> Get(option_data, "threeYears", None),
     fiveYears   |-> Get(option_data, "fiveYears", None),
     tenYears    |-> Get(option_data, "tenYears", None),
     tcr         |-> Get(option_data, "tcr", "0.5"),
     assetClass  |-> "Superannuation",
     sector      |-> option_data.description,
     status      |-> "Australian Super Fund Investment Option",
     country     |-> "Australia",
     currency    |-> "AUD",
     exchange    |-> "Australian Super",
     type        |-> "Super Fund Option",
     fund_name   |-> option_data.fund_name,
     option_name |-> option_data.option_name,
     risk_level  |-> option_data.risk_level,
     suggested_timeframe |-> option_data.suggested_timeframe]

RECURSIVE SuperFundLoop(_, _)
SuperFundLoop(search_term, i) ==
    IF i > Len(super_fund_options) THEN <<>>
    ELSE (IF SuperFundMatches(search_term, super_fund_options[i])
          THEN <<SuperFundResult(super_fund_options[i])>> ELSE <<>>)
         \o SuperFundLoop(search_term, i + 1)

get_comprehensive_super_fund_options(search_term) == SuperFundLoop(search_term, 1)

\* etf_database, in dictionary order
etf_database ==
    << [ticker |-> "VAS", name |-> "Vanguard Australian Shares Index ETF",
        apir |-> "VAN0011AU", description |-> "Tracks the ASX 300 Index",
        sector |-> "Australian Equity", fund_manager |-> "Vanguard",
        oneYear |-> "12.5", threeYears |-> "8.7", fiveYears |-> "9.1", tcr |-> "0.10"],
       [ticker |-> "VGS", name |-> "Vanguard MSCI Index International Shares ETF",
        apir |-> "VAN0012AU", description |-> "Tracks international developed markets",
        sector |-> "International Equity", fund_manager |-> "Vanguard",
        oneYear |-> "15.2", threeYears |-> "12.1", fiveYears |-> "13.8", tcr |-> "0.18"],
       [ticker |-> "A200", name |-> "BetaShares Australia 200 ETF",
        apir |-> "BTA0035AU", description |-> "Tracks the ASX 200 Index",
        sector |-> "Australian Equity", fund_manager |-> "BetaShares",
        oneYear |-> "11.8", threeYears |-> "8.2", fiveYears |-> "8.9", tcr |-> "0.07"],
       [ticker |-> "NDQ", name |-> "BetaShares NASDAQ 100 ETF",
        apir |-> "BTA0036AU", description |-> "Tracks the NASDAQ 100 Index",
        sector |-> "US Technology", fund_manager |-> "BetaShares",
        oneYear |-> "28.5", threeYears |-> "18.2", fiveYears |-> "20.1", tcr |-> "0.48"],
       [ticker |-> "VTS", name |-> "Vanguard US Total Market Shares Index ETF",
        apir |-> "VAN0013AU", description |-> "Tracks the total US stock market",
        sector |-> "US Equity", fund_manager |-> "Vanguard",
        oneYear |-> "22.1", threeYears |-> "15.8", fiveYears |-> "17.2", tcr |-> "0.03"],
       [ticker |-> "IOZ", name |-> "iShares Core S&P 500 ETF",
        apir |-> "IOZ0001AU", description |-> "Tracks the S&P 500 Index",
        sector |-> "US Equity", fund_manager |-> "iShares",
        oneYear |-> "20.8", threeYears |-> "14.9", fiveYears |-> "16.5", tcr |-> "0.09"],
       [ticker |-> "VGB", name |-> "Vanguard Australian Government Bond Index ETF",
        apir |-> "VAN0014AU", description |-> "Tracks Australian government bonds",
        sector |-> "Fixed Interest", fund_manager |-> "Vanguard",
        oneYear |-> "3.2", threeYears |-> "2.1", fiveYears |-> "3.8", tcr |-> "0.20"] >>

EtfMatches(search_term, etf_info) ==
    \/ Contains(Lower(etf_info.ticker), Lower(search_term))
    \/ Contains(Lower(etf_info.name), Lower(search_term))
    \/ Contains(Lower(Get(etf_info, "apir", "")), Lower(search_term))

EtfResult(etf_info) ==
    [apir        |-> etf_info.apir,
     name        |-> etf_info.name \o " (" \o etf_info.ticker \o ")",
     threeMonths |-> None,
     oneYear     |-> Get(etf_info, "oneYear", None),
     threeYears  |-> Get(etf_info, "threeYears", None),
     fiveYears   |-> Get(etf_info, "fiveYears", None),
     tenYears    |-> None,
     tcr         |-> Get(etf_info, "tcr", None),
     assetClass  |-> etf_info.sector,
     sector      |-> etf_info.description,
     status      |-> "ASX ETF",
     country     |-> "Australia",
     currency    |-> "AUD",
     exchange    |-> "ASX",
     type        |-> "ETF",
     ticker      |-> etf_info.ticker,
     fund_manager |-> etf_info.fund_manager]

RECURSIVE EtfLoop(_, _)
EtfLoop(search_term, i) ==
    IF i > Len(etf_database) THEN <<>>
    ELSE (IF EtfMatches(search_term, etf_database[i])
          THEN <<EtfResult(etf_database[i])>> ELSE <<>>)
         \o EtfLoop(search_term, i + 1)

get_asx_etf_database(search_term) == EtfLoop(search_term, 1)

\* ------------------------------------------------------------------------
\* enhanced_morningstar_multiple_strategies
\* ------------------------------------------------------------------------
\* A row of a provider answer that is not a mapping: item.get raises on it.
NotADict == [not_a_dict |-> "1"]
IsDict(item) == "not_a_dict" \notin DOMAIN item

\* The answer of one provider call: the call raises, or returns rows.
Raises == [raised |-> "yes"]
Returns(items) == [raised |-> "no", items |-> items]

KeepFormattedNameOnly(formatted_item) == Truthy(formatted_item.name)

\* if formatted_item and formatted_item.get('apir') and formatted_item.get('name')
KeepFormatted(formatted_item) == Truthy(formatted_item.apir) /\ Truthy(formatted_item.name)

\* The body of "for item in results" of one fund strategy, from the i-th row
\* on: a row on which formatting raises ends the strategy (the except clause
\* encloses the loop); what was appended before it stays in all_results.
RECURSIVE FundItems(_, _)
FundItems(items, i) ==
    IF i > Len(items) THEN <<>>
    ELSE IF ~IsDict(items[i]) THEN <<>>
    ELSE LET formatted_item ==
                 format_morningstar_data(items[i], "Enhanced Morningstar Multi-Strategy")
         IN (IF KeepFormatted(formatted_item) THEN <<formatted_item>> ELSE <<>>)
            \o FundItems(items, i + 1)

StockFormattedKeepsCharge(item) ==
    [format_morningstar_data(item, "Enhanced Morningstar Stocks") EXCEPT !.type = "Stock/ETF"]

\* formatted_item['tcr'] = None; formatted_item['type'] = 'Stock/ETF'
StockFormatted(item) ==
    [format_morningstar_data(item, "Enhanced Morningstar Stocks")
        EXCEPT !.tcr = None, !.type = "Stock/ETF"]

RECURSIVE StockItems(_, _)
StockItems(items, i) ==
    IF i > Len(items) THEN <<>>
    ELSE IF ~IsDict(items[i]) THEN <<>>
    ELSE (IF KeepFormatted(format_morningstar_data(items[i], "Enhanced Morningstar Stocks"))
          THEN <<StockFormatted(items[i])>> ELSE <<>>)
         \o StockItems(items, i + 1)

StrategyResults(outcome) ==
    IF outcome.raised = "yes" THEN <<>> ELSE FundItems(outcome.items, 1)

StockResults(outcome) ==
    IF outcome.raised = "yes" THEN <<>> ELSE StockItems(outcome.items, 1)

RECURSIVE StrategiesUntilRaise(_, _)
StrategiesUntilRaise(outs, c) ==
    IF c > 4 \/ outs[c].raised = "yes" THEN <<>>
    ELSE StrategyResults(outs[c]) \o StrategiesUntilRaise(outs, c + 1)

EnhancedBreakOnRaise(outs) == StrategiesUntilRaise(outs, 1) \o StockResults(outs[5])

\* outs[1..4]: the answers of mstarpy.search_funds to the four strategies, in
\* order; outs[5]: the answer of mstarpy.search_stock.  The search term only
\* travels to the provider, whose answers are free.
enhanced_morningstar_multiple_strategies(outs) ==
    StrategyResults(outs[1]) \o StrategyResults(outs[2]) \o StrategyResults(outs[3])
        \o StrategyResults(outs[4]) \o StockResults(outs[5])

\* ------------------------------------------------------------------------
\* The relevance classifier ("is this an Australian investment").  No function
\* of app.py computes it; it is written here from section 4.2 of the
\* specification: the acceptance conditions, any of which is sufficient.  The
\* rule data (suffix, abbreviations, exchanges, substrings) is configuration.
\* ------------------------------------------------------------------------
JurisdictionSuffix == "AU"
MinIdentifierLength == 8
InstitutionAbbreviations == {"VAN", "BTA"}
JurisdictionExchanges == {"XASX", "ASX"}
JurisdictionName == "australia"
JurisdictionCurrency == "AUD"
IndicativeNameParts == {"australia", "asx"}
PlaceholderPrefix == "F0000"

EndsWith(s, suffix) ==
    Len(s) >= Len(suffix) /\ SubSeq(s, Len(s) - Len(suffix) + 1, Len(s)) = suffix

StartsWith(s, prefix) == Len(s) >= Len(prefix) /\ SubSeq(s, 1, Len(prefix)) = prefix

\* the acceptance conditions, in the order the specification lists them
SuffixRule(record) ==
    EndsWith(record.apir, JurisdictionSuffix) /\ Len(record.apir) >= MinIdentifierLength
InstitutionRule(record) ==
    /\ \E abbreviation \in InstitutionAbbreviations : Contains(record.apir, abbreviation)
    /\ Contains(record.apir, JurisdictionSuffix)
ExchangeRule(record) == record.exchange \in JurisdictionExchanges
CountryRule(record) == Contains(Lower(record.country), JurisdictionName)
CurrencyNameRule(record) ==
    /\ record.currency = JurisdictionCurrency
    /\ \E part \in IndicativeNameParts : Contains(Lower(record.name), part)

\* the rejection policy applied as a veto, which the specification leaves out
IsRelevantUnlessPlaceholder(record) ==
    /\ ~StartsWith(record.apir, PlaceholderPrefix)
    /\ (SuffixRule(record) \/ InstitutionRule(record) \/ ExchangeRule(record)
            \/ CountryRule(record) \/ CurrencyNameRule(record))

IsRelevant(record) ==
    SuffixRule(record) \/ InstitutionRule(record) \/ ExchangeRule(record)
        \/ CountryRule(record) \/ CurrencyNameRule(record)

\* ------------------------------------------------------------------------
\* Collaborator answers the model draws from
\* ------------------------------------------------------------------------
RawFund ==
    [Name |-> "Beta Fund", fundShareClassId |-> "F00000123", SecId |-> "S1",
     GBRReturnM12 |-> "4.2", ongoingCharge |-> "0.85", LargestSector |-> "Tech",
     MarketCountryName |-> "United States", currency |-> "USD", ExchangeId |-> "XNAS"]
RawFundAlias ==
    [Name |-> "BETA FUND ", SecId |-> "f00000123", ISIN |-> "AU0000000001",
     ongoingCharge |-> "0.90", globalAssetClassId |-> "EQ"]
RawStock ==
    [Name |-> "Delta Stock", Ticker |-> "DLT", ongoingCharge |-> "0.30",
     SectorName |-> "Mining", ExchangeId |-> "XASX", GBRReturnM3 |-> "1.5"]
RawNoId == [Name |-> "No Id Fund", GBRReturnM3 |-> "1.0", ongoingCharge |-> "0.40"]
RawNoName == [fundShareClassId |-> "F4", TenforeId |-> "T4"]

ProviderScenarios ==
    { <<Raises, Raises, Raises, Raises, Raises>>,
      <<Returns(<<RawFund>>), Returns(<<>>), Returns(<<>>), Returns(<<>>),
        Returns(<<RawStock>>)>>,
      <<Returns(<<RawNoId, RawFund>>), Raises, Returns(<<RawFundAlias, RawFund>>),
        Returns(<<>>), Returns(<<RawNoId>>)>>,
      <<Returns(<<RawFund, NotADict, RawFundAlias>>), Returns(<<RawNoName>>),
        Returns(<<>>), Raises, Returns(<<RawStock, NotADict, RawFund>>)>>,
      <<Returns(<<>>), Returns(<<>>), Returns(<<RawStock>>), Returns(<<>>), Raises>> }

Sources ==
    {"APIR Official", "ASX mFund", "ATO Super Lookup", "InvestSMART", "Morningstar AU",
     "Comparison Sites", "Fund Managers", "Morningstar API"}

\* What a scraper can return besides the empty list: records of the shape the
\* scraper builds.
ScrapedRecords(source) ==
    CASE source = "APIR Official" ->
           << [apir |-> "BTA0035AU", name |-> "Fund BTA0035AU",
               source |-> "APIR Official Database", status |-> "APIR Official",
               country |-> "Australia", currency |-> "AUD"] >>
      [] source = "ASX mFund" ->
           << [apir |-> "", name |-> "Meta Growth Fund", fiveYears |-> None,
               source |-> "ASX mFund", status |-> "ASX mFund Listed",
               country |-> "Australia", currency |-> "AUD", type |-> "mFund"] >>
      [] source = "ATO Super Lookup" ->
           << [apir |-> "ATO123456AU", name |-> "HESTA", source |-> "ATO Super Fund Lookup",
               status |-> "ATO Registered Super Fund", country |-> "Australia",
               currency |-> "AUD", type |-> "Super Fund", abn |-> "12345678901"] >>
      [] source = "InvestSMART" ->
           << [apir |-> "BTA0035AU", threeMonths |-> None, oneYear |-> "11.8",
               threeYears |-> None, fiveYears |-> None, tenYears |-> None,
               tcr |-> "0.07", status |-> "InvestSMART Detailed",
               name |-> "BetaShares Australia 200 ETF",
               source |-> "InvestSMART Comprehensive"] >>
      [] source = "Morningstar AU" ->
           << [name |-> "BetaShares Australia 200 ETF (A200)",
               source |-> "Morningstar Australia",
               status |-> "Morningstar Australia Listed", country |-> "Australia",
               currency |-> "AUD", type |-> "Fund", apir |-> "bta0035au"] >>
      [] source = "Comparison Sites" ->
           << [name |-> "Beta fund", source |-> "Financial Comparison Sites",
               status |-> "Comparison Site Listed", country |-> "Australia",
               currency |-> "AUD", oneYear |-> "5.0", apir |-> "CMP0042AU"] >>
      [] source = "Fund Managers" ->
           << [name |-> "BetaShares Australia 200 ETF", source |-> "BetaShares Direct",
               status |-> "BetaShares Fund", country |-> "Australia", currency |-> "AUD",
               fund_manager |-> "BetaShares", type |-> "ETF", apir |-> "BTA0035AU"] >>

Scrapers == Sources \ {"Morningstar API"}

\* ------------------------------------------------------------------------
\* int(request.args.get('pageSize', default))
\* ------------------------------------------------------------------------
Digits == "0123456789"
IsDigit(c) == \E d \in 1..Len(Digits) : CharAt(Digits, d) = c
DigitValue(c) == (CHOOSE d \in 1..Len(Digits) : CharAt(Digits, d) = c) - 1

\* the digits of a literal, after the surrounding blanks and one sign
Unsigned(s) ==
    LET t == Strip(s)
    IN IF Len(t) > 0 /\ CharAt(t, 1) \in {"-", "+"} THEN SubSeq(t, 2, Len(t)) ELSE t

\* int(s) does not raise ValueError
IsIntLiteral(s) ==
    Len(Unsigned(s)) > 0 /\ \A i \in 1..Len(Unsigned(s)) : IsDigit(CharAt(Unsigned(s), i))

RECURSIVE DigitsValue(_, _)
DigitsValue(d, acc) ==
    IF Len(d) = 0 THEN acc
    ELSE DigitsValue(SubSeq(d, 2, Len(d)), 10 * acc + DigitValue(CharAt(d, 1)))

IntValue(s) ==
    IF CharAt(Strip(s), 1) = "-" THEN 0 - DigitsValue(Unsigned(s), 0)
    ELSE DigitsValue(Unsigned(s), 0)

\* ------------------------------------------------------------------------
\* State
\* ------------------------------------------------------------------------
VARIABLES
    pc,              \* where the request thread is: idle, fanout (in the
                     \* as_completed loop), shutdown (leaving the with block
                     \* after the wait timed out), responded
    req,             \* the request being handled: endpoint and query arguments
    tstate,          \* per fan-out task: idle, pending (submitted, its future
                     \* not yet yielded), done (yielded), dropped (unfinished
                     \* at the timeout)
    all_results,     \* all_results of search_ultimate_comprehensive
    results,         \* results of the handler: the full list before slicing
    provider_out,    \* what the provider answered to the five calls of
                     \* enhanced_morningstar_multiple_strategies, once made
    failure_logged,  \* "Source ... failed" was logged for this request
    called,          \* a collaborator was called for this request
    resp,            \* the response: status and JSON body
    dd_pc,           \* deduplicate_and_enhance taken alone: input, once, twice
    dd_in,           \* its argument
    dd_out,          \* deduplicate_and_enhance(dd_in)
    dd_again,        \* deduplicate_and_enhance(dd_out)
    fm_pc,           \* format_morningstar_data taken alone: input, formatted
    fm_in,           \* its item argument
    fm_out,          \* format_morningstar_data(fm_in, source)
    ms_pc,           \* enhanced_morningstar_multiple_strategies taken alone:
                     \* input, returned
    ms_in,           \* what the provider answers to its five calls
    ms_out,          \* the list it returns
    cl_pc,           \* the relevance classifier taken alone: input, classified
    cl_in,           \* the normalized record it is given
    cl_out,          \* its verdict
    task_out,        \* the fan-out with the tasks' outcomes held fixed: which
                     \* outcomes (what each of the eight tasks raises or returns)
    completed,       \* the sources in the order as_completed yielded them
    data_cache,      \* the aggregator's data_cache dictionary
    scraped_data     \* the aggregator's scraped_data dictionary

aggregator_vars == <<data_cache, scraped_data>>
service_vars ==
    <<pc, req, tstate, all_results, results, provider_out, failure_logged, called, resp,
      aggregator_vars>>
dd_vars == <<dd_pc, dd_in, dd_out, dd_again>>
fm_vars == <<fm_pc, fm_in, fm_out>>
ms_vars == <<ms_pc, ms_in, ms_out>>
cl_vars == <<cl_pc, cl_in, cl_out>>
\* the functions studied alone, which a request leaves untouched
fo_vars == <<task_out, completed>>
study_vars == <<dd_vars, fm_vars, ms_vars, cl_vars, fo_vars>>
vars == <<pc, req, tstate, all_results, results, provider_out, failure_logged, called,
          resp, dd_pc, dd_in, dd_out, dd_again, fm_pc, fm_in, fm_out,
          ms_pc, ms_in, ms_out, cl_pc, cl_in, cl_out, task_out, completed,
          data_cache, scraped_data>>

NoRequest == [endpoint |-> "none", args |-> <<>>]
NoResponse == [status |-> 0, body |-> <<>>]
NoProviderCall == <<>>

SearchEndpoints == {"funds", "stocks", "combined", "australia"}

DefaultPageSize == 20
AustraliaPageSize == 30

\* a dictionary with no entry
EmptyDict == <<>>

\* the aggregator as __init__ leaves it
AggregatorInit ==
    /\ data_cache = EmptyDict
    /\ scraped_data = EmptyDict

\* a handler that kept each request it served in data_cache
AggregatorFieldsCaching ==
    /\ data_cache' = IF pc = "responded" THEN Append(data_cache, req) ELSE data_cache
    /\ UNCHANGED scraped_data

\* what a step of a request does to the aggregator's dictionaries: no
\* handler, task or catalog lookup names data_cache or scraped_data
AggregatorFields == UNCHANGED <<data_cache, scraped_data>>

ServiceInit ==
    /\ AggregatorInit
    /\ pc = "idle"
    /\ req = NoRequest
    /\ tstate = [s \in Sources |-> "idle"]
    /\ all_results = <<>>
    /\ results = <<>>
    /\ provider_out = NoProviderCall
    /\ failure_logged = FALSE
    /\ called = FALSE
    /\ resp = NoResponse

\* ------------------------------------------------------------------------
\* The search handlers
\* ------------------------------------------------------------------------
Term(args) == Get(args, "term", "")

PageSizeRaises(args) == "pageSize" \in DOMAIN args /\ ~IsIntLiteral(args.pageSize)

PageSize(endpoint, args) ==
    IF "pageSize" \in DOMAIN args THEN IntValue(args.pageSize)
    ELSE IF endpoint = "australia" THEN AustraliaPageSize ELSE DefaultPageSize

\* A comparison that takes the letter case of country into account.
AggregatedExactCase(endpoint, args) ==
    \/ endpoint = "australia"
    \/ Get(args, "country", None) = "au"

\* if country and country.lower() == 'au'; search_australia always aggregates
Aggregated(endpoint, args) ==
    \/ endpoint = "australia"
    \/ Truthy(Get(args, "country", None)) /\ Lower(args.country) = "au"

\* the search_type argument handed to search_ultimate_comprehensive
SearchType(endpoint, args) ==
    IF endpoint = "australia" THEN Get(args, "type", "combined") ELSE endpoint

ResponseCountry(endpoint, args) ==
    IF endpoint = "australia" THEN "Australia" ELSE Get(args, "country", None)

\* final_results = results[:page_size] and the jsonify call of the success path
SuccessBody(endpoint, args, full_results) ==
    [success     |-> TRUE,
     results     |-> PySlice(full_results, PageSize(endpoint, args)),
     count       |-> Len(PySlice(full_results, PageSize(endpoint, args))),
     total_found |-> Len(full_results),
     country     |-> ResponseCountry(endpoint, args)]

Respond(status, body) ==
    /\ resp' = [status |-> status, body |-> body]
    /\ pc' = "responded"

PageSizeErrorUncaught(endpoint, args) ==
    /\ PageSizeRaises(args)
    /\ Respond(500, [html |-> "Internal Server Error"])
    /\ UNCHANGED <<tstate, all_results, results, provider_out, failure_logged, called>>

\* except Exception as e: return jsonify({'error': str(e)}), 500 for the
\* ValueError of int()
PageSizeError(endpoint, args) ==
    /\ PageSizeRaises(args)
    /\ Respond(500, [error |-> "invalid literal for int() with base 10: '"
                                 \o args.pageSize \o "'"])
    /\ UNCHANGED <<tstate, all_results, results, provider_out, failure_logged, called>>

\* if not term: return jsonify({'error': 'Search term is required'}), 400
TermRequired(endpoint, args) ==
    /\ ~PageSizeRaises(args)
    /\ ~Truthy(Term(args))
    /\ Respond(400, [error |-> "Search term is required"])
    /\ UNCHANGED <<tstate, all_results, results, provider_out, failure_logged, called>>

\* results = ultimate_aggregator.enhanced_morningstar_multiple_strategies(term)
DirectSearch(endpoint, args) ==
    /\ ~PageSizeRaises(args)
    /\ Truthy(Term(args))
    /\ ~Aggregated(endpoint, args)
    /\ \E outs \in ProviderScenarios :
          /\ provider_out' = outs
          /\ results' = enhanced_morningstar_multiple_strategies(outs)
          /\ Respond(200, SuccessBody(endpoint, args, results'))
    /\ called' = TRUE
    /\ UNCHANGED <<tstate, all_results, failure_logged>>

\* search_ultimate_comprehensive up to the submission of the eight tasks
SubmitTasks(endpoint, args) ==
    /\ ~PageSizeRaises(args)
    /\ Truthy(Term(args))
    /\ Aggregated(endpoint, args)
    /\ pc' = "fanout"
    /\ tstate' = [s \in Sources |-> "pending"]
    /\ all_results' = <<>>
    /\ called' = TRUE
    /\ UNCHANGED <<results, provider_out, failure_logged, resp>>

SearchHandler(endpoint, args) ==
    /\ pc = "idle"
    /\ req' = [endpoint |-> endpoint, args |-> args]
    /\ \/ PageSizeError(endpoint, args)
       \/ TermRequired(endpoint, args)
       \/ DirectSearch(endpoint, args)
       \/ SubmitTasks(endpoint, args)
    /\ UNCHANGED study_vars
    /\ AggregatorFields

search_funds(args) == SearchHandler("funds", args)
search_stocks(args) == SearchHandler("stocks", args)
search_combined(args) == SearchHandler("combined", args)
search_australia(args) == SearchHandler("australia", args)

\* a probe of the provider before answering
HealthCheckProbing ==
    /\ pc = "idle"
    /\ req' = [endpoint |-> "health", args |-> <<>>]
    /\ \E outs \in ProviderScenarios :
          IF \A c \in 1..5 : outs[c].raised = "yes"
          THEN Respond(503, [status |-> "DEGRADED"])
          ELSE Respond(200, [status |-> "ULTIMATE SYSTEM ONLINE!"])
    /\ called' = TRUE
    /\ UNCHANGED <<tstate, all_results, results, provider_out, failure_logged>>
    /\ UNCHANGED study_vars
    /\ AggregatorFields

health_check ==
    /\ pc = "idle"
    /\ req' = [endpoint |-> "health", args |-> <<>>]
    /\ Respond(200, [status |-> "ULTIMATE SYSTEM ONLINE!"])
    /\ UNCHANGED <<tstate, all_results, results, provider_out, failure_logged, called>>
    /\ UNCHANGED study_vars
    /\ AggregatorFields

\* ------------------------------------------------------------------------
\* The fan-out of search_ultimate_comprehensive
\* ------------------------------------------------------------------------
Pending(ts) == {s \in Sources : ts[s] = "pending"}

\* An aggregation that reads the search type: a search for funds leaves the
\* ETF catalog out.
WithCatalogsOfType(task_results, search_term) ==
    IF SearchType(req.endpoint, req.args) = "funds"
    THEN task_results \o get_comprehensive_super_fund_options(search_term)
    ELSE task_results \o get_comprehensive_super_fund_options(search_term)
                      \o get_asx_etf_database(search_term)

WithCatalogsEtfFirst(task_results, search_term) ==
    task_results \o get_asx_etf_database(search_term)
                 \o get_comprehensive_super_fund_options(search_term)

\* the catalogs appended after the with block
WithCatalogs(task_results, search_term) ==
    task_results \o get_comprehensive_super_fund_options(search_term)
                 \o get_asx_etf_database(search_term)

\* The request thread after one more future has been collected: the loop goes
\* on while futures are pending; after the last one the with block is left,
\* the catalogs are appended, the list is deduplicated and the handler answers.
AfterCollect(ts, task_results) ==
    /\ tstate' = ts
    /\ IF Pending(ts) # {}
       THEN /\ all_results' = task_results
            /\ UNCHANGED <<pc, results, resp>>
       ELSE /\ all_results' = WithCatalogs(task_results, Term(req.args))
            /\ results' = deduplicate_and_enhance(all_results')
            /\ Respond(200, SuccessBody(req.endpoint, req.args, results'))

\* as_completed yields the future of a scraper that returned a list:
\* all_results.extend(results)
CollectScraper(source, task_results, max_fan) ==
    /\ pc = "fanout"
    /\ tstate[source] = "pending"
    /\ task_results # <<>> => Len(all_results) < max_fan
    /\ AfterCollect([tstate EXCEPT ![source] = "done"], all_results \o task_results)
    /\ UNCHANGED <<req, provider_out, failure_logged, called>>
    /\ UNCHANGED study_vars
    /\ AggregatorFields

\* as_completed yields the future of enhanced_morningstar_multiple_strategies
CollectMorningstar(outs, max_fan) ==
    /\ pc = "fanout"
    /\ tstate["Morningstar API"] = "pending"
    /\ enhanced_morningstar_multiple_strategies(outs) # <<>> => Len(all_results) < max_fan
    /\ provider_out' = outs
    /\ AfterCollect([tstate EXCEPT !["Morningstar API"] = "done"],
                    all_results \o enhanced_morningstar_multiple_strategies(outs))
    /\ UNCHANGED <<req, failure_logged, called>>
    /\ UNCHANGED study_vars
    /\ AggregatorFields

\* as_completed yields a future whose task raised: future.result() raises,
\* the except clause logs it
CollectFailure(source) ==
    /\ pc = "fanout"
    /\ tstate[source] = "pending"
    /\ failure_logged' = TRUE
    /\ AfterCollect([tstate EXCEPT ![source] = "done"], all_results)
    /\ UNCHANGED <<req, provider_out, called>>
    /\ UNCHANGED study_vars
    /\ AggregatorFields

\* as_completed raises TimeoutError in the for statement, outside the try of
\* the loop body: the exception leaves the with block, whose exit is
\* executor.shutdown(wait=True)
AsCompletedTimeout ==
    /\ pc = "fanout"
    /\ Pending(tstate) # {}
    /\ pc' = "shutdown"
    /\ UNCHANGED <<req, tstate, all_results, results, provider_out, failure_logged,
                   called, resp>>
    /\ UNCHANGED study_vars
    /\ AggregatorFields

UnfinishedMessage(n) == CharAt(Digits, n + 1) \o " (of 8) futures unfinished"

\* shutdown(wait=True) returns when every worker has finished; the
\* TimeoutError then leaves search_ultimate_comprehensive, whose all_results
\* (with what the provider had answered) is lost, and reaches the except
\* clause of the handler
ShutdownJoin ==
    /\ pc = "shutdown"
    /\ tstate' = [s \in Sources |-> IF tstate[s] = "pending" THEN "dropped" ELSE tstate[s]]
    /\ all_results' = <<>>
    /\ provider_out' = NoProviderCall
    /\ Respond(500, [error |-> UnfinishedMessage(Cardinality(Pending(tstate)))])
    /\ UNCHANGED <<req, results, failure_logged, called>>
    /\ UNCHANGED study_vars
    /\ AggregatorFields

\* the response leaves; nothing of the request stays behind
SendResponse ==
    /\ pc = "responded"
    /\ pc' = "idle"
    /\ req' = NoRequest
    /\ tstate' = [s \in Sources |-> "idle"]
    /\ all_results' = <<>>
    /\ results' = <<>>
    /\ provider_out' = NoProviderCall
    /\ failure_logged' = FALSE
    /\ called' = FALSE
    /\ resp' = NoResponse
    /\ UNCHANGED study_vars
    /\ AggregatorFields

\* ------------------------------------------------------------------------
\* Requests the model draws from
\* ------------------------------------------------------------------------
Absent == None

TermArgs == {Absent, "", "Ta"}
PageSizeArgs == {Absent, "abc", "1"}
CountryArgs == {Absent, "AU", "us"}
TypeArgs == {Absent, "funds"}

Arg(key, value) == IF value = Absent THEN <<>> ELSE [k \in {key} |-> value]

CountryQueries ==
    {Arg("term", t) @@ Arg("pageSize", p) @@ Arg("country", c) :
        t \in TermArgs, p \in PageSizeArgs, c \in CountryArgs}

TypeQueries ==
    {Arg("term", t) @@ Arg("pageSize", p) @@ Arg("type", ty) :
        t \in TermArgs, p \in PageSizeArgs, ty \in TypeArgs}

\* a task returns a non-empty list only while all_results holds fewer records
MaxFan == 1

Next ==
    \/ \E args \in CountryQueries : search_funds(args)
    \/ \E args \in CountryQueries : search_stocks(args)
    \/ \E args \in CountryQueries : search_combined(args)
    \/ \E args \in TypeQueries : search_australia(args)
    \/ health_check
    \/ \E source \in Scrapers : \E task_results \in {<<>>, ScrapedRecords(source)} :
          CollectScraper(source, task_results, MaxFan)
    \/ \E outs \in ProviderScenarios : CollectMorningstar(outs, MaxFan)
    \/ \E source \in Sources : CollectFailure(source)
    \/ AsCompletedTimeout
    \/ ShutdownJoin
    \/ SendResponse

DedupOff ==
    /\ dd_pc = "off"
    /\ dd_in = <<>>
    /\ dd_out = <<>>
    /\ dd_again = <<>>

FormatOff ==
    /\ fm_pc = "off"
    /\ fm_in = <<>>
    /\ fm_out = <<>>

AdapterOff ==
    /\ ms_pc = "off"
    /\ ms_in = <<>>
    /\ ms_out = <<>>

ClassifierOff ==
    /\ cl_pc = "off"
    /\ cl_in = <<>>
    /\ cl_out = FALSE

FanOutOff ==
    /\ task_out = "off"
    /\ completed = <<>>

Init == ServiceInit /\ DedupOff /\ FormatOff /\ AdapterOff /\ ClassifierOff /\ FanOutOff

Spec == Init /\ [][Next]_vars

\* Time passes, so a wait on pending futures times out unless they complete,
\* and a computed response is sent.  Nothing makes a worker finish.
Fairness == WF_vars(AsCompletedTimeout) /\ WF_vars(SendResponse)

FairSpec == Init /\ [][Next]_vars /\ Fairness

\* ------------------------------------------------------------------------
\* /api/search/combined taken alone, with a fan-out in which two tasks
\* contribute records
\* ------------------------------------------------------------------------
MaxCombined == 3

CombinedNext ==
    \/ \E args \in CountryQueries : search_combined(args)
    \/ \E source \in Scrapers : \E task_results \in {<<>>, ScrapedRecords(source)} :
          CollectScraper(source, task_results, MaxCombined)
    \/ \E outs \in ProviderScenarios : CollectMorningstar(outs, MaxCombined)
    \/ \E source \in Sources : CollectFailure(source)
    \/ AsCompletedTimeout
    \/ ShutdownJoin
    \/ SendResponse

CombinedSpec == Init /\ [][CombinedNext]_vars

\* ------------------------------------------------------------------------
\* deduplicate_and_enhance taken alone
\* ------------------------------------------------------------------------
DedupItems ==
    { [apir |-> "X1", name |-> "Alpha", tcr |-> "0.5", status |-> "First"],
      [apir |-> " x1", name |-> "ALPHA ", tcr |-> "0.9", sector |-> "Tech",
       source |-> "Second", fund_name |-> "Alpha Funds"],
      [apir |-> "Y2", name |-> "Alpha", assetClass |-> None, ticker |-> "ALP"],
      [apir |-> "Y2", name |-> "Beta", type |-> "ETF"],
      [apir |-> "", name |-> "Gamma"],
      [apir |-> None, name |-> "Beta", tcr |-> "0.1"],
      [name |-> "Alpha", source |-> "No identifier"],
      [apir |-> "_X", name |-> "a", status |-> "Left"],
      [apir |-> "X", name |-> "a_", status |-> "Right"] }

\* the longest input list
MaxLen == 3

BoundedSeq(S, n) == UNION {[1..k -> S] : k \in 0..n}

DedupInit ==
    /\ ServiceInit
    /\ FormatOff /\ AdapterOff /\ ClassifierOff /\ FanOutOff
    /\ dd_pc = "input"
    /\ dd_in \in BoundedSeq(DedupItems, MaxLen)
    /\ dd_out = <<>>
    /\ dd_again = <<>>

DedupOnce ==
    /\ dd_pc = "input"
    /\ dd_out' = deduplicate_and_enhance(dd_in)
    /\ dd_pc' = "once"
    /\ UNCHANGED <<dd_in, dd_again>>
    /\ UNCHANGED <<service_vars, fm_vars, ms_vars, cl_vars, fo_vars>>

DedupTwice ==
    /\ dd_pc = "once"
    /\ dd_again' = deduplicate_and_enhance(dd_out)
    /\ dd_pc' = "twice"
    /\ UNCHANGED <<dd_in, dd_out>>
    /\ UNCHANGED <<service_vars, fm_vars, ms_vars, cl_vars, fo_vars>>

DedupNext == DedupOnce \/ DedupTwice

DedupSpec == DedupInit /\ [][DedupNext]_vars

\* ------------------------------------------------------------------------
\* format_morningstar_data taken alone
\* ------------------------------------------------------------------------
\* the value the provider gives under each identifier key, when it gives one
RawIdentifierValues ==
    [fundShareClassId |-> "FS1", SecId |-> "SE2", Ticker |-> "TK3",
     TenforeId |-> "TF4", ISIN |-> "IS5"]

\* per key: the row lacks it, or carries '', None or a value
KeyShapes == {"absent", "empty", "null", "set"}

RawItem(shape) ==
    [k \in {key \in DOMAIN RawIdentifierValues : shape[key] # "absent"} |->
        CASE shape[k] = "empty" -> ""
          [] shape[k] = "null" -> None
          [] OTHER -> RawIdentifierValues[k]]
    @@ [Name |-> "Beta Fund", ongoingCharge |-> "0.85"]

FormatItems == {RawItem(shape) : shape \in [DOMAIN RawIdentifierValues -> KeyShapes]}

\* the value the provider gives under each of the other keys the function
\* reads, when it gives one
RawFieldValues ==
    [GBRReturnM3 |-> "1.5", GBRReturnM12 |-> "4.2", GBRReturnM36 |-> "7.0",
     GBRReturnM60 |-> "9.1", GBRReturnM120 |-> "11.3", ongoingCharge |-> "0.85",
     MarketCountryName |-> "United States", currency |-> "USD", ExchangeId |-> "XNAS"]
RawSectorValues == [LargestSector |-> "Tech", SectorName |-> "Mining"]
SectorShapes == {"absent", "empty", "set"}

\* a row with the keys of `present`, and each sector key absent, '' or set
FieldItem(present, sector_shape) ==
    [k \in present |-> RawFieldValues[k]]
    @@ [k \in {key \in DOMAIN RawSectorValues : sector_shape[key] # "absent"} |->
          IF sector_shape[k] = "empty" THEN "" ELSE RawSectorValues[k]]
    @@ [Name |-> "Beta Fund", SecId |-> "SE2"]

FieldItems ==
    {FieldItem(present, sector_shape) :
        present \in SUBSET DOMAIN RawFieldValues,
        sector_shape \in [DOMAIN RawSectorValues -> SectorShapes]}

FormatSources == {"Enhanced Morningstar Multi-Strategy", "Enhanced Morningstar Stocks"}

FormatInit ==
    /\ ServiceInit
    /\ DedupOff /\ AdapterOff /\ ClassifierOff /\ FanOutOff
    /\ fm_pc = "input"
    /\ fm_in \in FormatItems \cup FieldItems
    /\ fm_out = <<>>

Format ==
    /\ fm_pc = "input"
    /\ \E source \in FormatSources : fm_out' = format_morningstar_data(fm_in, source)
    /\ fm_pc' = "formatted"
    /\ UNCHANGED fm_in
    /\ UNCHANGED <<service_vars, dd_vars, ms_vars, cl_vars, fo_vars>>

FormatNext == Format

FormatSpec == FormatInit /\ [][FormatNext]_vars

\* ------------------------------------------------------------------------
\* enhanced_morningstar_multiple_strategies taken alone
\* ------------------------------------------------------------------------
\* lists of rows the provider can answer with; a call returns a prefix of one
ProviderAnswers ==
    { <<NotADict, RawFund, RawStock>>,
      <<RawFund, NotADict, RawFundAlias>>,
      <<RawStock, RawNoId, RawNoName>> }

\* the most rows one provider call returns
MaxRows == 2

AdapterOutcomes(max_rows) ==
    {Raises} \cup {Returns(SubSeq(answer, 1, n)) : answer \in ProviderAnswers, n \in 0..max_rows}

AdapterInit ==
    /\ ServiceInit
    /\ DedupOff /\ FormatOff /\ ClassifierOff /\ FanOutOff
    /\ ms_pc = "input"
    /\ ms_in \in [1..5 -> AdapterOutcomes(MaxRows)]
    /\ ms_out = <<>>

Adapter ==
    /\ ms_pc = "input"
    /\ ms_out' = enhanced_morningstar_multiple_strategies(ms_in)
    /\ ms_pc' = "returned"
    /\ UNCHANGED ms_in
    /\ UNCHANGED <<service_vars, dd_vars, fm_vars, cl_vars, fo_vars>>

AdapterNext == Adapter

AdapterSpec == AdapterInit /\ [][AdapterNext]_vars

\* ------------------------------------------------------------------------
\* The relevance classifier taken alone
\* ------------------------------------------------------------------------
ClassifierRecords ==
    [apir     : {"ABC1234AU", "F00000123", "VANAU", ""},
     name     : {"Beta Fund", "Australian Shares"},
     country  : {"Australia", "United States", ""},
     currency : {"AUD", "USD"},
     exchange : {"XASX", "XNAS", ""}]

ClassifierInit ==
    /\ ServiceInit
    /\ DedupOff /\ FormatOff /\ AdapterOff /\ FanOutOff
    /\ cl_pc = "input"
    /\ cl_in \in ClassifierRecords
    /\ cl_out = FALSE

Classify ==
    /\ cl_pc = "input"
    /\ cl_out' = IsRelevant(cl_in)
    /\ cl_pc' = "classified"
    /\ UNCHANGED cl_in
    /\ UNCHANGED <<service_vars, dd_vars, fm_vars, ms_vars, fo_vars>>

ClassifierNext == Classify

ClassifierSpec == ClassifierInit /\ [][ClassifierNext]_vars

\* ------------------------------------------------------------------------
\* The fan-out with the tasks' outcomes held fixed: one aggregated request,
\* every one of the eight futures yielded, in any order
\* ------------------------------------------------------------------------
\* Several tasks return records, two of them the same fund under different
\* field values, the provider task two records; two tasks return nothing and
\* two raise.
MixedOutcomes ==
    [s \in Sources |->
        CASE s \in {"ASX mFund", "Comparison Sites"} -> Returns(<<>>)
          [] s \in {"ATO Super Lookup", "Morningstar AU"} -> Raises
          [] s = "Morningstar API" ->
               Returns(enhanced_morningstar_multiple_strategies(
                   <<Returns(<<RawFund>>), Raises, Returns(<<>>), Returns(<<>>),
                     Returns(<<RawStock>>)>>))
          [] OTHER -> Returns(ScrapedRecords(s))]

\* no task contributes: each raises or returns an empty list
BarrenOutcomes ==
    [s \in Sources |->
        IF s \in {"APIR Official", "InvestSMART", "Fund Managers", "Morningstar API"}
        THEN Raises ELSE Returns(<<>>)]

\* the outcomes a run holds fixed, by name
FanOutOutcomes == [mixed |-> MixedOutcomes, barren |-> BarrenOutcomes]

\* the aggregated requests, which differ in the search type they carry
FanOutRequests ==
    { [endpoint |-> "australia", args |-> [term |-> "Ta"]],
      [endpoint |-> "australia", args |-> [term |-> "Ta", type |-> "funds"]],
      [endpoint |-> "funds", args |-> [term |-> "Ta", country |-> "AU"]],
      [endpoint |-> "stocks", args |-> [term |-> "Ta", country |-> "AU"]] }

FanOutRuns ==
    {<<request, "mixed">> : request \in FanOutRequests}
        \cup {<<[endpoint |-> "australia", args |-> [term |-> "Ta"]], "barren">>}

FanOutInit ==
    /\ ServiceInit
    /\ DedupOff /\ FormatOff /\ AdapterOff /\ ClassifierOff
    /\ task_out \in DOMAIN FanOutOutcomes
    /\ completed = <<>>

\* the request arrives: the handler submits the eight tasks
FanOutRequest ==
    /\ \E run \in FanOutRuns :
          /\ run[2] = task_out
          /\ SearchHandler(run[1].endpoint, run[1].args)

\* the order in which the tasks are submitted
SubmitOrder ==
    <<"APIR Official", "ASX mFund", "ATO Super Lookup", "InvestSMART", "Morningstar AU",
      "Comparison Sites", "Fund Managers", "Morningstar API">>

SubmitRank(source) == CHOOSE i \in 1..Len(SubmitOrder) : SubmitOrder[i] = source

\* the task returns at least one record
Contributes(source) ==
    /\ FanOutOutcomes[task_out][source].raised = "no"
    /\ FanOutOutcomes[task_out][source].items # <<>>

\* as_completed yields the future of `source`: future.result() raises and is
\* logged, or returns the list all_results is extended with.  A future that
\* contributes nothing leaves all_results as it is wherever it comes, so
\* among themselves such futures are taken in submission order only; the
\* futures that contribute come in every order, before, between and after.
YieldFuture(source) ==
    /\ pc = "fanout"
    /\ tstate[source] = "pending"
    /\ ~Contributes(source) =>
          \A earlier \in Sources :
              (~Contributes(earlier) /\ SubmitRank(earlier) < SubmitRank(source))
                  => tstate[earlier] # "pending"
    /\ completed' = Append(completed, source)
    /\ IF FanOutOutcomes[task_out][source].raised = "yes"
       THEN /\ failure_logged' = TRUE
            /\ AfterCollect([tstate EXCEPT ![source] = "done"], all_results)
       ELSE /\ UNCHANGED failure_logged
            /\ AfterCollect([tstate EXCEPT ![source] = "done"],
                            all_results \o FanOutOutcomes[task_out][source].items)
    /\ UNCHANGED <<req, provider_out, called, task_out>>
    /\ UNCHANGED <<dd_vars, fm_vars, ms_vars, cl_vars>>
    /\ AggregatorFields

FanOutNext ==
    \/ FanOutRequest
    \/ \E source \in Sources : YieldFuture(source)

FanOutSpec == FanOutInit /\ [][FanOutNext]_vars

\* ------------------------------------------------------------------------
\* Properties
\* ------------------------------------------------------------------------
Answered == pc = "responded" /\ req.endpoint \in SearchEndpoints
Succeeded == Answered /\ resp.status = 200

\* C1: each search endpoint answers a request whose term is missing or empty
\* with 400 and {"error": "Search term is required"}, whatever the other
\* query parameters are, and calls no collaborator.
C1_MissingTermAnswered400 ==
    (Answered /\ ~Truthy(Term(req.args)))
        => /\ resp.status = 400
           /\ resp.body = [error |-> "Search term is required"]
           /\ ~called

\* C2: every record in the results of a successful /api/search/stocks
\* response has a null cost ratio.
C2_StocksCostRatioNull ==
    (Succeeded /\ req.endpoint = "stocks")
        => \A i \in 1..Len(resp.body.results) : resp.body.results[i].tcr = None

\* ---- deduplicate_and_enhance ----
Deduplicated == dd_pc \in {"once", "twice"}

SameName(a, b) == NameKey(a) = NameKey(b)
SameIdentifier(a, b) == ApirKey(a) = ApirKey(b)

FirstOfKey(list, i) ==
    /\ ~Skipped(list[i])
    /\ \A j \in 1..(i - 1) : Skipped(list[j]) \/ ComboKey(list[j]) # ComboKey(list[i])

FirstCount(list) == Cardinality({i \in 1..Len(list) : FirstOfKey(list, i)})

\* the index of the k-th such record
KthFirst(list, k) ==
    CHOOSE i \in 1..Len(list) :
        FirstOfKey(list, i) /\ Cardinality({j \in 1..(i - 1) : FirstOfKey(list, j)}) = k - 1

\* C4: the output is an order-preserving subsequence of the input: its k-th
\* record is the k-th input record that is the first one carrying its
\* deduplication key.
C4_OrderPreservingSubsequence ==
    Deduplicated =>
        /\ Len(dd_out) = FirstCount(dd_in)
        /\ \A k \in 1..Len(dd_out) :
              /\ dd_out[k].name = dd_in[KthFirst(dd_in, k)].name
              /\ dd_out[k].apir = dd_in[KthFirst(dd_in, k)].apir

\* a duplicate stands between two kept records
C4_Witness ==
    /\ dd_pc = "once"
    /\ Len(dd_in) = 3 /\ Len(dd_out) = 2
    /\ ~Skipped(dd_in[2]) /\ ComboKey(dd_in[2]) = ComboKey(dd_in[1])
    /\ dd_out[2].name = dd_in[3].name /\ dd_out[1].name # dd_out[2].name

\* C5: deduplication is idempotent, record for record and field for field.
C5_Idempotent == dd_pc = "twice" => dd_again = dd_out

\* the first pass dropped a duplicate and filled defaults
C5_Witness ==
    /\ dd_pc = "twice"
    /\ Len(dd_out) >= 2 /\ Len(dd_out) < Len(dd_in)
    /\ \E i \in 1..Len(dd_in) : ~Skipped(dd_in[i]) /\ "source" \notin DOMAIN dd_in[i]
    /\ \E k \in 1..Len(dd_out) : dd_out[k].source = "Ultimate Aggregator"

FixedDefaults ==
    [apir |-> "", name |-> "", threeMonths |-> None, oneYear |-> None,
     threeYears |-> None, fiveYears |-> None, tenYears |-> None, tcr |-> None,
     assetClass |-> "Unknown", sector |-> "", status |-> "Multiple Sources",
     country |-> "Australia", currency |-> "AUD", exchange |-> "", type |-> "Fund",
     source |-> "Ultimate Aggregator"]

\* C6: first-seen-wins without merging: every field of an output record is the
\* value of that field in the first input record with its key, or the fixed
\* default when that record lacks the field.
C6_FirstSeenWinsNoMerge ==
    Deduplicated =>
        /\ Len(dd_out) = FirstCount(dd_in)
        /\ \A k \in 1..Len(dd_out) : \A f \in DOMAIN dd_out[k] :
              LET first == dd_in[KthFirst(dd_in, k)]
              IN \/ f \in DOMAIN first /\ dd_out[k][f] = first[f]
                 \/ /\ f \notin DOMAIN first
                    /\ f \in DOMAIN FixedDefaults
                    /\ dd_out[k][f] = FixedDefaults[f]

\* the first record lacks a field that its later duplicate has
C6_Witness ==
    /\ dd_pc = "once"
    /\ Len(dd_in) >= 2 /\ Len(dd_out) = 1
    /\ ~Skipped(dd_in[1]) /\ ~Skipped(dd_in[2])
    /\ ComboKey(dd_in[1]) = ComboKey(dd_in[2])
    /\ "sector" \notin DOMAIN dd_in[1] /\ "sector" \in DOMAIN dd_in[2]
    /\ dd_in[2].sector # "" /\ dd_out[1].sector = ""

\* ---- the fan-out ----
FanOutRan == \E s \in Sources : tstate[s] # "idle"
TimedOut == \E s \in Sources : tstate[s] = "dropped"

\* C7: a fan-out task that raises, or that is unfinished when the wait times
\* out, is only logged: the caller still receives a 200 success response.
C7_FailureNeverSurfaced ==
    (Answered /\ FanOutRan /\ (failure_logged \/ TimedOut))
        => resp.status = 200 /\ "success" \in DOMAIN resp.body

\* C8: once the wait has timed out, search_ultimate_comprehensive returns and
\* the request is answered, even when the unfinished worker never finishes.
C8_SlowWorkerCutOff == (pc = "shutdown") ~> (pc = "responded")

\* ---- the responses ----
Min(a, b) == IF a < b THEN a ELSE b

\* C9: with a non-empty term and a non-negative page size n, a success
\* response has results = the first min(n, total_found) records of the full
\* list, count = the length of results, total_found = the length of the full
\* list, and no record without a name.
C9_PagePrefix ==
    (Succeeded /\ Truthy(Term(req.args)) /\ PageSize(req.endpoint, req.args) >= 0)
        => LET n == PageSize(req.endpoint, req.args)
               page == resp.body.results
           IN /\ Len(page) = Min(n, Len(results))
              /\ \A i \in 1..Len(page) : page[i] = results[i]
              /\ resp.body.count = Len(page)
              /\ resp.body.total_found = Len(results)
              /\ \A i \in 1..Len(page) : "name" \in DOMAIN page[i] /\ page[i].name # None

\* the page size cuts the list
C9_Witness ==
    /\ Succeeded
    /\ PageSize(req.endpoint, req.args) = 1
    /\ Len(results) >= 2
    /\ Len(resp.body.results) = 1

IdentifierKeys == {"fundShareClassId", "SecId", "Ticker", "TenforeId", "ISIN"}

\* the rows the provider returned during the request
ProvidedRows ==
    IF provider_out = NoProviderCall THEN {}
    ELSE UNION { {provider_out[c].items[i] : i \in 1..Len(provider_out[c].items)} :
                 c \in {d \in 1..5 : provider_out[d].raised = "no"} }

LacksIdentifier(row) == IsDict(row) /\ DOMAIN row \cap IdentifierKeys = {}

\* what a row becomes on its way into a response
Renderings(row) ==
    LET fund == format_morningstar_data(row, "Enhanced Morningstar Multi-Strategy")
    IN {fund, StockFormatted(row), Enhance(fund), Enhance(StockFormatted(row))}

\* C10: a provider row without any identifier-like key is formatted with the
\* empty identifier and appears in no response; every record of every search
\* response has a non-empty identifier and a non-empty name.
C10_IdentifierAndNameRequired ==
    Succeeded =>
        /\ \A i \in 1..Len(resp.body.results) :
              /\ Truthy(Get(resp.body.results[i], "apir", None))
              /\ Truthy(Get(resp.body.results[i], "name", None))
        /\ \A row \in ProvidedRows :
              LacksIdentifier(row) =>
                 /\ format_morningstar_data(row, "Enhanced Morningstar Multi-Strategy").apir = ""
                 /\ \A i \in 1..Len(results) : results[i] \notin Renderings(row)

\* the provider returned a row without identifier among rows that are kept
C10_Witness ==
    /\ Succeeded
    /\ \E row \in ProvidedRows : LacksIdentifier(row)
    /\ Len(resp.body.results) >= 1

\* ---- the identifier ----
IdentifierOrder == <<"fundShareClassId", "SecId", "Ticker", "TenforeId", "ISIN">>

NonEmptyAt(item, i) ==
    /\ IdentifierOrder[i] \in DOMAIN item
    /\ item[IdentifierOrder[i]] \notin {"", None}

\* C11: the identifier format_morningstar_data produces is the value of the
\* first key, in the order fundShareClassId, SecId, Ticker, TenforeId, ISIN,
\* whose value is present and non-empty; an earlier such key wins over any
\* later one.
C11_FirstNonEmptyKeyWins ==
    fm_pc = "formatted" =>
        \A i \in 1..Len(IdentifierOrder) :
            (NonEmptyAt(fm_in, i) /\ \A j \in 1..(i - 1) : ~NonEmptyAt(fm_in, j))
                => fm_out.apir = fm_in[IdentifierOrder[i]]

\* an empty first key, a missing second one, and two later keys with values
C11_Witness ==
    /\ fm_pc = "formatted"
    /\ "fundShareClassId" \in DOMAIN fm_in /\ fm_in.fundShareClassId = ""
    /\ "SecId" \notin DOMAIN fm_in
    /\ NonEmptyAt(fm_in, 3) /\ NonEmptyAt(fm_in, 5)
    /\ fm_out.apir = fm_in.Ticker

\* ---- the provider adapter ----
\* a row that normalizes to a record with an identifier and a name
WellFormed(row) ==
    /\ "not_a_dict" \notin DOMAIN row
    /\ \E i \in 1..Len(IdentifierOrder) : NonEmptyAt(row, i)
    /\ "Name" \in DOMAIN row /\ row.Name \notin {"", None}

FirstIdentifier(row) ==
    row[IdentifierOrder[CHOOSE i \in 1..Len(IdentifierOrder) :
            NonEmptyAt(row, i) /\ \A j \in 1..(i - 1) : ~NonEmptyAt(row, j)]]

Appears(row, list) ==
    \E k \in 1..Len(list) : list[k].apir = FirstIdentifier(row) /\ list[k].name = row.Name

\* C12: a row on which normalization fails is skipped alone: every other row
\* of the same provider call, before or after it, that has an identifier and
\* a name is in the returned list.
C12_MalformedRowSkippedAlone ==
    ms_pc = "returned" =>
        \A c \in 1..5 :
            ms_in[c].raised = "no" =>
                \A r \in 1..Len(ms_in[c].items) :
                    WellFormed(ms_in[c].items[r]) => Appears(ms_in[c].items[r], ms_out)

\* what the call c yields when the other four calls answer with no rows
Solo(outs, c) == [d \in 1..5 |-> IF d = c THEN outs[d] ELSE Returns(<<>>)]
Contribution(outs, c) == enhanced_morningstar_multiple_strategies(Solo(outs, c))

\* the identifier and name of the rows of call c that have both
RECURSIVE NamedRows(_, _)
NamedRows(rows, r) ==
    IF r > Len(rows) THEN <<>>
    ELSE (IF WellFormed(rows[r]) THEN << <<FirstIdentifier(rows[r]), rows[r].Name>> >> ELSE <<>>)
         \o NamedRows(rows, r + 1)

Expected(outs, c) == IF outs[c].raised = "yes" THEN <<>> ELSE NamedRows(outs[c].items, 1)

AllNormalize(outs) ==
    \A c \in 1..5 : outs[c].raised = "no" =>
        \A r \in 1..Len(outs[c].items) : "not_a_dict" \notin DOMAIN outs[c].items[r]

FundStatus == "Enhanced Morningstar Multi-Strategy"
StockStatus == "Enhanced Morningstar Stocks"

\* C13: a provider call that raises contributes no record and changes nothing
\* else: the returned list is, in call order, what the calls that did not
\* raise contribute, each of their records kept.
C13_RaisingCallContributesNothing ==
    ms_pc = "returned" =>
        /\ ms_out = Contribution(ms_in, 1) \o Contribution(ms_in, 2) \o Contribution(ms_in, 3)
                        \o Contribution(ms_in, 4) \o Contribution(ms_in, 5)
        /\ \A c \in 1..5 : ms_in[c].raised = "yes" => Contribution(ms_in, c) = <<>>
        /\ (\A c \in 1..4 : ms_in[c].raised = "yes")
               => \A k \in 1..Len(ms_out) : ms_out[k].status # FundStatus
        /\ ms_in[5].raised = "yes" => \A k \in 1..Len(ms_out) : ms_out[k].status # StockStatus
        /\ AllNormalize(ms_in) =>
               [k \in 1..Len(ms_out) |-> <<ms_out[k].apir, ms_out[k].name>>]
                   = Expected(ms_in, 1) \o Expected(ms_in, 2) \o Expected(ms_in, 3)
                        \o Expected(ms_in, 4) \o Expected(ms_in, 5)

\* the second fund call and the stock call raise; the first and third fund
\* calls each return a row, and both records are returned in that order
C13_Witness ==
    /\ ms_pc = "returned"
    /\ ms_in[2].raised = "yes" /\ ms_in[5].raised = "yes"
    /\ ms_in[1] = Returns(<<RawFund>>)
    /\ ms_in[3] = Returns(<<RawStock>>)
    /\ ms_in[4] = Returns(<<>>)
    /\ Len(ms_out) = 2
    /\ ms_out[1].name = RawFund.Name /\ ms_out[2].name = RawStock.Name

\* ---- exceptions in a handler ----
\* the request in flight raised inside its handler: int() on pageSize, or the
\* TimeoutError of the wait
HandlerRaised == PageSizeRaises(req.args) \/ TimedOut

\* C14: an exception raised inside a search handler is answered 500 with a
\* body holding only the error message, and once that answer has left the
\* service is in the state it was in before the request: a later request is
\* served from the same state as if the failed one had never been made.
C14_ExceptionAnswered500AndForgotten ==
    [][/\ (pc' = "responded" /\ req'.endpoint \in SearchEndpoints /\ HandlerRaised')
          => (resp'.status = 500 /\ DOMAIN resp'.body = {"error"}
              /\ Len(resp'.body.error) > 0)
       /\ (pc = "responded" /\ resp.status = 500 /\ pc' = "idle") => ServiceInit'
      ]_vars

\* a request with a term and a pageSize that is no integer has been answered
C14_Witness ==
    /\ pc = "responded"
    /\ req.endpoint \in SearchEndpoints
    /\ Truthy(Term(req.args))
    /\ PageSizeRaises(req.args)
    /\ resp.status = 500
    /\ "error" \in DOMAIN resp.body

\* ---- /api/search/combined ----
FromStockLookup(record) == record.type = "Stock/ETF"
FromFundLookup(record) == record.type = "Fund"

\* C15: in a successful /api/search/combined response, whatever the country,
\* fund records come first: no record of the stock lookup precedes a fund
\* record in the list the page is cut from, so that pageSize cuts stock
\* records before fund records.
C15_FundsBeforeStocks ==
    (Succeeded /\ req.endpoint = "combined") =>
        \A i \in 1..Len(results) : \A j \in 1..Len(results) :
            (i < j /\ FromStockLookup(results[i])) => ~FromFundLookup(results[j])

\* ---- uniqueness within a response ----
\* C16: in a success response of any search handler, whatever the country and
\* the provider answers, no two records of results have both the same
\* identifier and the same lower-cased name.
C16_IdentifierAndNameUnique ==
    (Succeeded /\ req.endpoint \in SearchEndpoints) =>
        \A i \in 1..Len(resp.body.results) : \A j \in 1..Len(resp.body.results) :
            i # j => ~(/\ resp.body.results[i].apir = resp.body.results[j].apir
                       /\ Lower(resp.body.results[i].name) = Lower(resp.body.results[j].name))

\* ---- the relevance classifier ----
\* C17: every record of a response of the jurisdiction-specific search
\* (/api/search/australia, or funds, stocks, combined with country=au) has
\* passed the relevance classifier: it satisfies an acceptance condition.
C17_AggregatedResultsAreRelevant ==
    (Succeeded /\ req.endpoint \in SearchEndpoints /\ Aggregated(req.endpoint, req.args)) =>
        \A i \in 1..Len(resp.body.results) : IsRelevant(resp.body.results[i])

C19_HealthAlways200 ==
    /\ pc = "idle" => ENABLED health_check
    /\ (pc = "responded" /\ req.endpoint = "health") =>
           /\ resp.status = 200
           /\ "status" \in DOMAIN resp.body
           /\ req.args = <<>>
           /\ ~called
           /\ provider_out = NoProviderCall
           /\ \A s \in Sources : tstate[s] = "idle"

C19_Witness ==
    /\ pc = "responded"
    /\ req.endpoint = "health"
    /\ resp.status = 200
    /\ resp.body.status = "ULTIMATE SYSTEM ONLINE!"

\* ---- the cost ratio of stock and fund records ----
\* the record comes from a row with this identifier and name that one of the
\* calls in the set answered, and carries that row's ongoingCharge
KeepsChargeOf(record, calls) ==
    \E c \in calls :
        /\ ms_in[c].raised = "no"
        /\ \E r \in 1..Len(ms_in[c].items) :
              /\ WellFormed(ms_in[c].items[r])
              /\ FirstIdentifier(ms_in[c].items[r]) = record.apir
              /\ ms_in[c].items[r].Name = record.name
              /\ record.tcr = (IF "ongoingCharge" \in DOMAIN ms_in[c].items[r]
                               THEN ms_in[c].items[r].ongoingCharge ELSE None)

\* C20: every record enhanced_morningstar_multiple_strategies obtains from
\* the stock lookup is returned with tcr null and type 'Stock/ETF', whatever
\* ongoingCharge the row carried; the records of the four fund lookups keep
\* the ongoingCharge of their row and are of type 'Fund'.
C20_StockChargeNullFundChargeKept ==
    ms_pc = "returned" =>
        \A k \in 1..Len(ms_out) :
            /\ ms_out[k].status \in {FundStatus, StockStatus}
            /\ ms_out[k].status = StockStatus =>
                   (ms_out[k].tcr = None /\ ms_out[k].type = "Stock/ETF")
            /\ ms_out[k].status = FundStatus =>
                   (ms_out[k].type = "Fund" /\ KeepsChargeOf(ms_out[k], 1..4))

\* a fund row and a stock row, both carrying an ongoingCharge
C20_Witness ==
    /\ ms_pc = "returned"
    /\ ms_in[1] = Returns(<<RawFund>>)
    /\ ms_in[5] = Returns(<<RawStock>>)
    /\ RawStock.ongoingCharge # None
    /\ Len(ms_out) = 2
    /\ ms_out[1].tcr = RawFund.ongoingCharge /\ ms_out[1].type = "Fund"
    /\ ms_out[2].tcr = None /\ ms_out[2].type = "Stock/ETF"

\* ---- the reference mapping of format_morningstar_data ----
\* the raw value under the key, or the default when the row lacks the key
RawOr(item, key, default) == IF key \in DOMAIN item THEN item[key] ELSE default

NonEmptyKey(item, key) == key \in DOMAIN item /\ item[key] \notin {"", None}

ReferenceSector(item, sector) ==
    IF NonEmptyKey(item, "LargestSector") THEN sector = item.LargestSector
    ELSE IF NonEmptyKey(item, "SectorName") THEN sector = item.SectorName
    ELSE sector \in {"", None}

\* C21: format_morningstar_data returns a record for every row, whatever keys
\* the row lacks, and the record equals the reference mapping: the five
\* returns and the cost ratio are the raw values or null, the sector is
\* LargestSector when non-empty, else SectorName, else empty, the locale
\* fields are the raw values or 'Australia', 'AUD' and ''; the row itself is
\* left as it was.
C21_ReferenceMapping ==
    [][(fm_pc = "input" /\ fm_pc' = "formatted") =>
          /\ fm_in' = fm_in
          /\ fm_out'.threeMonths = RawOr(fm_in, "GBRReturnM3", None)
          /\ fm_out'.oneYear = RawOr(fm_in, "GBRReturnM12", None)
          /\ fm_out'.threeYears = RawOr(fm_in, "GBRReturnM36", None)
          /\ fm_out'.fiveYears = RawOr(fm_in, "GBRReturnM60", None)
          /\ fm_out'.tenYears = RawOr(fm_in, "GBRReturnM120", None)
          /\ fm_out'.tcr = RawOr(fm_in, "ongoingCharge", None)
          /\ ReferenceSector(fm_in, fm_out'.sector)
          /\ fm_out'.country = RawOr(fm_in, "MarketCountryName", "Australia")
          /\ fm_out'.currency = RawOr(fm_in, "currency", "AUD")
          /\ fm_out'.exchange = RawOr(fm_in, "ExchangeId", "")
      ]_vars

\* a row with only the three-year return and an empty LargestSector beside
\* SectorName: the other returns are null, the locale fields the defaults
C21_Witness ==
    /\ fm_pc = "formatted"
    /\ DOMAIN fm_in \cap DOMAIN RawFieldValues = {"GBRReturnM36"}
    /\ "LargestSector" \in DOMAIN fm_in /\ fm_in.LargestSector = ""
    /\ "SectorName" \in DOMAIN fm_in
    /\ fm_out.threeYears = "7.0" /\ fm_out.fiveYears = None
    /\ fm_out.sector = "Mining"
    /\ fm_out.country = "Australia" /\ fm_out.currency = "AUD" /\ fm_out.exchange = ""

\* ---- the fan-out with fixed outcomes ----
\* every future has been yielded and the request answered
AllYielded == pc = "responded" /\ Len(completed) = Cardinality(Sources)

\* what the task of `source` returned
TaskRecords(source) ==
    IF FanOutOutcomes[task_out][source].raised = "yes" THEN <<>>
    ELSE FanOutOutcomes[task_out][source].items

\* the tasks' lists one after the other, in the order of `order`
RECURSIVE BlocksOf(_, _)
BlocksOf(order, i) ==
    IF i > Len(order) THEN <<>> ELSE TaskRecords(order[i]) \o BlocksOf(order, i + 1)

\* C22: when all eight tasks have completed, the list handed to
\* deduplication is the tasks' lists, each whole and in its own order, one
\* after the other in the order the futures were yielded, then the matching
\* super-fund catalog entries, then the matching ETF catalog entries.
C22_BlocksInCompletionOrderThenCatalogs ==
    AllYielded =>
        all_results = BlocksOf(completed, 1)
                        \o get_comprehensive_super_fund_options(Term(req.args))
                        \o get_asx_etf_database(Term(req.args))

\* the provider task, submitted last, is yielded first and the first scraper
\* last: the provider's two records open the list, catalog entries close it
C22_Witness ==
    /\ AllYielded
    /\ task_out = "mixed"
    /\ completed[1] = "Morningstar API"
    /\ completed[Len(completed)] = "APIR Official"
    /\ all_results[1].name = "Beta Fund" /\ all_results[2].name = "Delta Stock"
    /\ Len(all_results) > Len(BlocksOf(completed, 1))
    /\ all_results[Len(all_results)].status = "ASX ETF"

\* C23: nothing is kept between requests.  data_cache and scraped_data are
\* at every moment what __init__ made them, and whenever the service is idle,
\* after any sequence of requests, failed ones included, every piece of its
\* state is what it was at process start: the next answer depends only on
\* the next request and on what the collaborators return for it.
C23_NothingPersisted ==
    /\ AggregatorInit
    /\ pc = "idle" => ServiceInit

\* an aggregated request in which a task failed has been answered with
\* records, and both dictionaries are still empty
C23_Witness ==
    /\ Succeeded /\ FanOutRan /\ failure_logged
    /\ results # <<>>
    /\ data_cache = EmptyDict /\ scraped_data = EmptyDict

\* ---- what deduplication drops ----
\* an earlier record of the input has the same (name, identifier) pair
RepeatsEarlierPair(list, i) ==
    \E j \in 1..(i - 1) : SameName(list[j], list[i]) /\ SameIdentifier(list[j], list[i])

\* C24: deduplicate_and_enhance drops a record only when its name or its
\* identifier is empty or an earlier record of the input has the same
\* lower-cased trimmed name and the same upper-cased trimmed identifier;
\* every other record is in the output, also when names or identifiers hold
\* an underscore.
C24_DropsOnlyRepeatedPairs ==
    Deduplicated =>
        \A i \in DOMAIN dd_in :
            (~Skipped(dd_in[i]) /\ ~RepeatsEarlierPair(dd_in, i))
                => \E k \in DOMAIN dd_out : dd_out[k] = Enhance(dd_in[i])

\* ---- completion order ----
\* every record the request gathers, whatever the order: what the tasks
\* return and the catalog entries that match
GatheredRecords ==
    LET super_fund_results == get_comprehensive_super_fund_options(Term(req.args))
        etf_results == get_asx_etf_database(Term(req.args))
        Records(list) == {list[k] : k \in DOMAIN list}
    IN  UNION {Records(TaskRecords(source)) : source \in Sources}
            \cup Records(super_fund_results) \cup Records(etf_results)

\* the deduplication keys of the gathered records that have a name and an
\* identifier
GatheredKeys == {ComboKey(item) : item \in {r \in GatheredRecords : ~Skipped(r)}}

\* C25: with the outcomes of the eight tasks fixed, the set of deduplication
\* keys in the full result list and total_found are the same under every
\* order in which the futures are yielded: they are fixed by the records
\* gathered, not by the order they were gathered in.
C25_KeysAndTotalOrderIndependent ==
    AllYielded =>
        LET keys == GatheredKeys IN
        /\ {ComboKey(results[k]) : k \in DOMAIN results} = keys
        /\ resp.body.total_found = Cardinality(keys)

\* two tasks return the same fund; the task submitted later is yielded first
\* and it is its record that survives, ahead of the first scraper's record
C25_Witness ==
    /\ AllYielded
    /\ task_out = "mixed"
    /\ \E i, j \in DOMAIN completed :
          /\ i < j
          /\ completed[i] = "Fund Managers" /\ completed[j] = "InvestSMART"
    /\ \E k, l \in DOMAIN results :
          /\ k < l
          /\ results[k].name = "BetaShares Australia 200 ETF"
          /\ results[k].status = "BetaShares Fund"
          /\ results[l].status = "APIR Official"
    /\ resp.body.total_found = Cardinality(GatheredKeys)

\* ---- no task contributes ----
NoTaskContributes == \A source \in Sources : TaskRecords(source) = <<>>

ContainsIgnoringCase(text, term) == Contains(Lower(text), Lower(term))

\* the catalog entries the term selects, in catalog order
SelectedSuperFunds(term) ==
    SelectSeq(super_fund_options,
              LAMBDA option : \/ ContainsIgnoringCase(option.key, term)
                              \/ ContainsIgnoringCase(option.fund_name, term))
SelectedEtfs(term) ==
    SelectSeq(etf_database,
              LAMBDA etf : \/ ContainsIgnoringCase(etf.ticker, term)
                           \/ ContainsIgnoringCase(etf.name, term)
                           \/ ContainsIgnoringCase(etf.apir, term))

\* the catalog entry a result record stands for
IsSuperFundEntry(record, option) ==
    /\ record.apir = option.apir /\ record.name = option.key
    /\ record.fund_name = option.fund_name /\ record.type = "Super Fund Option"
IsEtfEntry(record, etf) ==
    /\ record.apir = etf.apir /\ record.ticker = etf.ticker
    /\ record.name = etf.name \o " (" \o etf.ticker \o ")" /\ record.type = "ETF"

\* C26: when every one of the eight tasks raises or returns no record, the
\* request is still answered 200 with success true, and the full result
\* list is the super-fund catalog entries whose option name or fund name
\* contains the term, letter case ignored, in catalog order, followed by the
\* ETF catalog entries whose ticker, name or identifier contains it.
C26_OnlyCatalogsWhenNoTaskContributes ==
    (AllYielded /\ NoTaskContributes) =>
        LET supers == SelectedSuperFunds(Term(req.args))
            etfs == SelectedEtfs(Term(req.args))
        IN  /\ resp.status = 200 /\ resp.body.success = TRUE
            /\ Len(results) = Len(supers) + Len(etfs)
            /\ resp.body.total_found = Len(supers) + Len(etfs)
            /\ \A k \in 1..Len(supers) : IsSuperFundEntry(results[k], supers[k])
            /\ \A k \in 1..Len(etfs) : IsEtfEntry(results[Len(supers) + k], etfs[k])

\* four tasks raised, four returned nothing; the answer holds a super-fund
\* option matched through its upper-case fund name and, after it, an ETF
C26_Witness ==
    /\ AllYielded /\ NoTaskContributes
    /\ failure_logged
    /\ resp.status = 200
    /\ results[1].fund_name = "HESTA"
    /\ results[Len(results)].type = "ETF"

\* ---- the search type ----
\* what an aggregated request returns in full, from the term, the tasks'
\* outcomes and the order the futures were yielded in
FullResults(term, order) ==
    deduplicate_and_enhance(BlocksOf(order, 1)
                                \o get_comprehensive_super_fund_options(term)
                                \o get_asx_etf_database(term))

\* C28: the search type has no effect on an aggregated request.  results,
\* count and total_found are fixed by the term, the page size, the tasks'
\* outcomes and the completion order: requests that differ only in the type
\* parameter of /api/search/australia, or in the search type the funds and
\* stocks handlers pass with country=au, are answered alike.
C28_SearchTypeHasNoEffect ==
    AllYielded =>
        LET full == FullResults(Term(req.args), completed)
            page == PySlice(full, PageSize(req.endpoint, req.args))
        IN  /\ resp.body.results = page
            /\ resp.body.count = Len(page)
            /\ resp.body.total_found = Len(full)

\* a request that names the search type funds is answered with stock and ETF
\* records among its results
C28_Witness ==
    /\ AllYielded
    /\ task_out = "mixed"
    /\ SearchType(req.endpoint, req.args) = "funds"
    /\ \E k \in DOMAIN resp.body.results : resp.body.results[k].type = "Stock/ETF"
    /\ \E k \in DOMAIN resp.body.results : resp.body.results[k].type = "ETF"

\* ---- the choice of path ----
\* the country parameter is present and reads au, letter case ignored
CountryIsAu(args) == "country" \in DOMAIN args /\ Lower(args.country) = "au"

\* a funds, stocks or combined request went as far as calling a collaborator
PathTaken == Answered /\ req.endpoint # "australia" /\ called

\* C27: on /api/search/funds, /stocks and /combined the fan-out runs exactly
\* when country reads au, letter case ignored.  For every other value, and
\* without a country, the request is answered with the list
\* enhanced_morningstar_multiple_strategies returned, as it is: nothing was
\* gathered from the tasks or the catalogs and nothing deduplicated.
C27_AggregatedExactlyForAu ==
    PathTaken =>
        /\ FanOutRan <=> CountryIsAu(req.args)
        /\ ~CountryIsAu(req.args) =>
              /\ resp.status = 200
              /\ results = enhanced_morningstar_multiple_strategies(provider_out)
              /\ all_results = <<>>
              /\ resp.body.total_found = Len(results)

\* with country=us the same fund is in the results twice: the provider's
\* list was answered as it is
C27_Witness ==
    /\ PathTaken /\ resp.status = 200
    /\ "country" \in DOMAIN req.args /\ req.args.country = "us"
    /\ ~FanOutRan
    /\ \E i, j \in DOMAIN results :
          i < j /\ ComboKey(results[i]) = ComboKey(results[j])

====
